---- MODULE Spec2Model ----
(***************************************************************************)
(* State-machine model of seba2390/ssh_gui:                                *)
(*   - RemoteFileBrowser (src/src/remote_file_browser.py): the remote      *)
(*     listing parser and the navigation operations;                       *)
(*   - is_remote_directory / download_file / upload_file /                 *)
(*     run_rsync_command (src/ssh_gui.py): the transfer worker.            *)
(* Python str values are TLA+ strings; Char(s, i) is s[i-1].               *)
(***************************************************************************)
EXTENDS Integers, Sequences, FiniteSets, TLC

(***************************************************************************)
(* Bounds of the model.                                                    *)
(***************************************************************************)
\* longest current_path (in characters) a descent may build
MaxPathLen == 4
\* longest run of consecutive go_up() calls the walk observer follows
MaxRun == 2
\* writes (stdout lines, stderr messages) one transfer subprocess makes
MaxWrites == 3
\* lines or messages an unread pipe holds before a write to it blocks
PipeCap == 2

(***************************************************************************)
(* Python string primitives.                                               *)
(***************************************************************************)
Char(s, i) == SubSeq(s, i, i)

Sep == "/"

Max(S) == CHOOSE m \in S : \A n \in S : n <= m

\* str.rfind(c) + 1: 1-based index of the last occurrence of c, 0 if none
RFind(s, c) ==
  LET I == {i \in 1..Len(s) : Char(s, i) = c}
  IN  IF I = {} THEN 0 ELSE Max(I)

\* str.rstrip('/')
RECURSIVE RStripSep(_)
RStripSep(s) ==
  IF s # "" /\ Char(s, Len(s)) = Sep
  THEN RStripSep(SubSeq(s, 1, Len(s) - 1))
  ELSE s

\* head == sep * len(head)
AllSep(s) == \A i \in 1..Len(s) : Char(s, i) = Sep

\* str.replace("\\", "/")
RECURSIVE ReplaceBackslash(_)
ReplaceBackslash(s) ==
  IF s = "" THEN ""
  ELSE (IF Char(s, 1) = "\\" THEN Sep ELSE Char(s, 1))
         \o ReplaceBackslash(SubSeq(s, 2, Len(s)))

StartsWith(s, c) == s # "" /\ Char(s, 1) = c
EndsWith(s, c) == s # "" /\ Char(s, Len(s)) = c

(***************************************************************************)
(* posixpath.dirname and posixpath.join, as CPython computes them.         *)
(***************************************************************************)
Dirname(p) ==
  LET i == RFind(p, Sep)
      head == SubSeq(p, 1, i)
  IN  IF head # "" /\ ~AllSep(head) THEN RStripSep(head) ELSE head

PathJoin(a, b) ==
  IF StartsWith(b, Sep) THEN b
  ELSE IF a = "" \/ EndsWith(a, Sep) THEN a \o b
  ELSE a \o Sep \o b

(***************************************************************************)
(* IEEE-754 binary64 arithmetic, as CPython's float uses it: a float is    *)
(* [neg, m, e] with m its significand bits, most significant first (at     *)
(* most 53 of them, the first one 1; <<>> for zero) and e the weight of    *)
(* the last bit: its value is (-1)^neg * m * 2^e.  Every operation rounds  *)
(* its exact result to nearest, ties to even.  Exponent range and          *)
(* subnormals are out of reach of the values the program handles.  Long    *)
(* bit strings are worked on in chunks of ChunkBits bits so that every     *)
(* intermediate value stays a machine integer.                             *)
(***************************************************************************)
Precision == 53
ChunkBits == 8
ChunkBase == 256
\* chunks of the extended dividend of a division: room for the dividend,
\* the leading zeros a divisor below 2^23 can cause and Precision + 1
\* quotient bits
DivChunks == 17

Min(S) == CHOOSE m \in S : \A n \in S : m <= n

Bit(b, i) == IF i >= 1 /\ i <= Len(b) THEN b[i] ELSE 0

\* number of bits of n, 0 <= n < 2^30
BitLen(n) == CHOOSE l \in 0..30 : n < 2 ^ l /\ (l = 0 \/ n >= 2 ^ (l - 1))

ToBits(n) == [i \in 1..BitLen(n) |-> (n \div (2 ^ (BitLen(n) - i))) % 2]

\* value of the ChunkBits bits of b that end at index lo
ChunkVal(b, lo) ==
  Bit(b, lo) + 2 * Bit(b, lo - 1) + 4 * Bit(b, lo - 2) + 8 * Bit(b, lo - 3)
    + 16 * Bit(b, lo - 4) + 32 * Bit(b, lo - 5) + 64 * Bit(b, lo - 6)
    + 128 * Bit(b, lo - 7)

\* value of a bit string of at most 30 bits
BitsToInt(b) ==
  ChunkVal(b, Len(b)) + ChunkBase * ChunkVal(b, Len(b) - ChunkBits)
    + ChunkBase * ChunkBase * ChunkVal(b, Len(b) - 2 * ChunkBits)
    + ChunkBase * ChunkBase * ChunkBase * ChunkVal(b, Len(b) - 3 * ChunkBits)

\* the bits of a sequence of chunk values, most significant chunk first
ChunksToBits(cs) ==
  [i \in 1..(ChunkBits * Len(cs)) |->
     (cs[((i - 1) \div ChunkBits) + 1]
        \div (2 ^ (ChunkBits - 1 - ((i - 1) % ChunkBits)))) % 2]

AnyOne(b) == \E i \in 1..Len(b) : b[i] = 1

\* b without its leading zeros
StripZeros(b) ==
  IF ~AnyOne(b) THEN <<>>
  ELSE SubSeq(b, Min({i \in 1..Len(b) : b[i] = 1}), Len(b))

\* b + 1 on a bit string (one bit longer when b is all ones)
IncBits(b) ==
  IF \A i \in 1..Len(b) : b[i] = 1
  THEN [i \in 1..(Len(b) + 1) |-> IF i = 1 THEN 1 ELSE 0]
  ELSE LET j == Max({i \in 1..Len(b) : b[i] = 0})
       IN  [i \in 1..Len(b) |-> IF i < j THEN b[i] ELSE IF i = j THEN 1 ELSE 0]

\* chunks of b * k, from the chunk that ends at index lo upward
RECURSIVE MulChunks(_, _, _, _)
MulChunks(b, lo, k, carry) ==
  IF lo < 1 /\ carry = 0 THEN <<>>
  ELSE LET v == ChunkVal(b, lo) * k + carry
       IN  Append(MulChunks(b, lo - ChunkBits, k, v \div ChunkBase),
                  v % ChunkBase)

\* b * k for 0 < k < 2^23
MulBits(b, k) == StripZeros(ChunksToBits(MulChunks(b, Len(b), k, 0)))

\* round the exact value bits * 2^e (plus a nonzero tail when sticky) to
\* Precision bits, to nearest, ties to even
RoundBits(neg, bits, e, sticky) ==
  IF Len(bits) <= Precision THEN [neg |-> neg, m |-> bits, e |-> e]
  ELSE LET keep == SubSeq(bits, 1, Precision)
           rest == SubSeq(bits, Precision + 1, Len(bits))
           st   == sticky \/ AnyOne(SubSeq(rest, 2, Len(rest)))
           up   == rest[1] = 1 /\ (st \/ keep[Precision] = 1)
           m1   == IF up THEN IncBits(keep) ELSE keep
       IN  IF Len(m1) > Precision
           THEN [neg |-> neg, m |-> SubSeq(m1, 1, Precision),
                 e |-> e + Len(rest) + 1]
           ELSE [neg |-> neg, m |-> m1, e |-> e + Len(rest)]

\* float(n)
FromInt(n) ==
  [neg |-> n < 0, m |-> ToBits(IF n < 0 THEN -n ELSE n), e |-> 0]

\* long division by k of the dividend d extended with zeros to DivChunks
\* chunks: the quotient's chunks from chunk j on, and the last remainder
RECURSIVE DivFrom(_, _, _, _)
DivFrom(d, j, r, k) ==
  IF j > DivChunks THEN [q |-> <<>>, r |-> r]
  ELSE LET v == r * ChunkBase + ChunkVal(d, j * ChunkBits)
           rec == DivFrom(d, j + 1, v % k, k)
       IN  [q |-> <<v \div k>> \o rec.q, r |-> rec.r]

\* x / k for a float x and an integer 0 < k < 2^23
FloatDiv(x, k) ==
  IF x.m = <<>> THEN x
  ELSE LET dv == DivFrom(x.m, 1, 0, k)
           Q  == ChunksToBits(dv.q)
           f  == Min({i \in 1..Len(Q) : Q[i] = 1})
           q  == SubSeq(Q, f, f + Precision)
           st == dv.r # 0 \/ AnyOne(SubSeq(Q, f + Precision + 1, Len(Q)))
       IN  RoundBits(x.neg, q, x.e + Len(x.m) - (f + Precision), st)

\* x * k for a float x and an integer 0 < k < 2^23
FloatMul(x, k) ==
  IF x.m = <<>> THEN x ELSE RoundBits(x.neg, MulBits(x.m, k), x.e, FALSE)

\* int(x): truncation toward zero, for |x| < 2^30
FloatTrunc(x) ==
  LET n == Len(x.m) + x.e
      mag == IF n <= 0 THEN 0
             ELSE IF x.e >= 0 THEN BitsToInt(x.m) * (2 ^ x.e)
             ELSE BitsToInt(SubSeq(x.m, 1, n))
  IN  IF x.neg THEN -mag ELSE mag

(***************************************************************************)
(* format_size (remote_file_browser.py).                                   *)
(***************************************************************************)
units == <<"Bytes", "KB", "MB", "GB", "TB", "PB">>

\* size >= 1000 for a float below 2^30
FloatGE1000(x) == ~x.neg /\ FloatTrunc(x) >= 1000

\* the loop "while size >= 1000 and unit_index < len(units) - 1"
RECURSIVE ScaleSize(_, _)
ScaleSize(size, unit_index) ==
  IF FloatGE1000(size) /\ unit_index < Len(units) - 1
  THEN ScaleSize(FloatDiv(size, 1000), unit_index + 1)
  ELSE [size |-> size, unit_index |-> unit_index]

\* f"{x:.1f}": the exact value of x rounded to one decimal, ties to even
FormatOneDecimal(x) ==
  LET bits == IF x.m = <<>> THEN <<>> ELSE MulBits(x.m, 10)
      n    == Len(bits) + x.e
      ipart == IF n <= 0 THEN 0
               ELSE IF x.e >= 0 THEN BitsToInt(bits) * (2 ^ x.e)
               ELSE BitsToInt(SubSeq(bits, 1, n))
      frac == IF x.e >= 0 \/ n < 0 THEN <<>>
              ELSE SubSeq(bits, n + 1, Len(bits))
      up   == /\ frac # <<>>
              /\ frac[1] = 1
              /\ (AnyOne(SubSeq(frac, 2, Len(frac))) \/ ipart % 2 = 1)
      tenths == IF up THEN ipart + 1 ELSE ipart
  IN  (IF x.neg THEN "-" ELSE "")
        \o ToString(tenths \div 10) \o "." \o ToString(tenths % 10)

format_size(size_in_bytes) ==
  LET s == ScaleSize(FromInt(size_in_bytes), 0)
  IN  IF s.unit_index = 0
      THEN ToString(FloatTrunc(s.size)) \o " " \o units[1]
      ELSE FormatOneDecimal(s.size) \o " " \o units[s.unit_index + 1]

(***************************************************************************)
(* Text primitives of the listing loop: str.split('\n'), str.strip(),      *)
(* str.split(), ' '.join(...), int(...).                                   *)
(***************************************************************************)
NthSmallest(S, n) == CHOOSE p \in S : Cardinality({q \in S : q < p}) = n - 1

\* text.split(c)
SplitOn(s, c) ==
  LET P == {i \in 1..Len(s) : Char(s, i) = c}
      n == Cardinality(P)
  IN  [i \in 1..(n + 1) |->
         SubSeq(s, (IF i = 1 THEN 0 ELSE NthSmallest(P, i - 1)) + 1,
                   (IF i = n + 1 THEN Len(s) + 1 ELSE NthSmallest(P, i)) - 1)]

IsSpace(ch) == ch \in {" ", "\t", "\r", "\n"}

\* line.split(): the maximal runs of non-whitespace characters
SplitFields(line) ==
  LET starts == {i \in 1..Len(line) :
                   ~IsSpace(Char(line, i))
                   /\ (i = 1 \/ IsSpace(Char(line, i - 1)))}
      ends   == {i \in 1..Len(line) :
                   ~IsSpace(Char(line, i))
                   /\ (i = Len(line) \/ IsSpace(Char(line, i + 1)))}
  IN  [k \in 1..Cardinality(starts) |->
         SubSeq(line, NthSmallest(starts, k), NthSmallest(ends, k))]

\* line.strip()
Strip(line) ==
  LET keep == {i \in 1..Len(line) : ~IsSpace(Char(line, i))}
  IN  IF keep = {} THEN "" ELSE SubSeq(line, Min(keep), Max(keep))

\* ' '.join(parts)
RECURSIVE JoinSpace(_)
JoinSpace(parts) ==
  IF parts = <<>> THEN ""
  ELSE IF Len(parts) = 1 THEN parts[1]
  ELSE parts[1] \o " " \o JoinSpace(Tail(parts))

DigitChars == "0123456789"
IsDigit(ch) == ch \in {"0", "1", "2", "3", "4", "5", "6", "7", "8", "9"}
DigitVal(ch) == (CHOOSE d \in 1..10 : Char(DigitChars, d) = ch) - 1

RECURSIVE DigitsVal(_)
DigitsVal(s) ==
  IF s = "" THEN 0
  ELSE 10 * DigitsVal(SubSeq(s, 1, Len(s) - 1)) + DigitVal(Char(s, Len(s)))

\* the text int(s) accepts: an optional sign, then decimal digits
IntBody(s) ==
  IF StartsWith(s, "-") \/ StartsWith(s, "+") THEN SubSeq(s, 2, Len(s)) ELSE s
IsIntText(s) ==
  IntBody(s) # "" /\ \A i \in 1..Len(IntBody(s)) : IsDigit(Char(IntBody(s), i))
\* int(s), for a text int() accepts
IntOf(s) ==
  IF StartsWith(s, "-") THEN -DigitsVal(IntBody(s)) ELSE DigitsVal(IntBody(s))

(***************************************************************************)
(* The body of refresh()'s loop over one listing line: "skip" when the     *)
(* line is blank or has fewer than 9 fields, "error" when int(size)        *)
(* raises ValueError, else the row tree.insert() adds.                     *)
(***************************************************************************)
MinFields == 9

ParseLine(line) ==
  LET parts == SplitFields(line)
  IN  IF Strip(line) = "" \/ Len(parts) < MinFields THEN [kind |-> "skip"]
      ELSE LET permissions == parts[1]
               size == parts[5]
               name == JoinSpace(SubSeq(parts, 9, Len(parts)))
           IN  IF StartsWith(permissions, "d")
               THEN [kind |-> "row",
                     row |-> [text |-> name,
                              values |-> <<"Directory", permissions, "">>]]
               ELSE IF StartsWith(permissions, "l")
               THEN [kind |-> "row",
                     row |-> [text |-> name,
                              values |-> <<"Link", permissions, "">>]]
               ELSE IF ~IsIntText(size) THEN [kind |-> "error"]
               ELSE [kind |-> "row",
                     row |-> [text |-> name,
                              values |-> <<"File", permissions,
                                           format_size(IntOf(size))>>]]

\* ls_output.split('\n')[1:]
ListingLines(ls_output) == Tail(SplitOn(ls_output, "\n"))

\* the whole loop of refresh() over lines, starting from the rows shown:
\* the rows inserted, and whether the loop ran to its end
RECURSIVE RunLoop(_, _)
RunLoop(rows, lines) ==
  IF lines = <<>> THEN [rows |-> rows, raised |-> FALSE]
  ELSE LET r == ParseLine(Head(lines))
       IN  IF r.kind = "error" THEN [rows |-> rows, raised |-> TRUE]
           ELSE RunLoop(IF r.kind = "row" THEN Append(rows, r.row) ELSE rows,
                        Tail(lines))

(***************************************************************************)
(* State.                                                                  *)
(***************************************************************************)
VARIABLES
  \* RemoteFileBrowser
  current_path,     \* self.current_path
  forward_history,  \* self.forward_history
  tree,             \* the rows of self.tree, in display order
  rpc,              \* position of the UI thread: "idle", or inside
                    \* refresh(): "fetch" (in execute_command), "parse"
  ls_lines,         \* refresh(): the lines the loop has still to visit
  ls_returncode,    \* result.returncode of the last execute_command
  raised,           \* exception the last handler ended with, or "none"
  \* observers of the navigation run (not program state)
  prev_tree,        \* the rows shown when the refresh() that is running,
                    \* or that raised, began (else <<>>)
  walk,             \* the current run of go_up() / go_forward() calls
  \* the transfer widgets, one pair per direction
  progress_value,   \* download_progress['value'], upload_progress['value']
  status_text,      \* text of download_status_label, upload_status_label
  \* the transfer workers and their subprocesses
  wk,               \* per job: the thread running run_rsync_command
  proc              \* per job: the rsync subprocess and its pipes

navVars == <<current_path, forward_history, tree, rpc, ls_lines,
             ls_returncode, raised, prev_tree, walk>>

xferVars == <<progress_value, status_text, wk, proc>>

vars == <<navVars, xferVars>>

(***************************************************************************)
(* The remote side of execute_command: what `ssh ... 'ls -la "<path>"'`    *)
(* can answer.  The channel is a black box, so every answer is possible    *)
(* at every path.                                                          *)
(***************************************************************************)
LsTotal == "total 8\n"
LsDot == "drwx 2 u g 64 Jan 1 0:00 .\n"
LsDotDot == "drwx 3 u g 64 Jan 1 0:00 ..\n"

LsResults ==
  { \* a directory with a subdirectory and a file whose name has a space
    [stdout |-> LsTotal \o LsDotDot
                  \o "drwx 2 u g 64 Jan 1 0:00 a\n"
                  \o "-rw- 1 u g 1500 Jan  1 0:00 my file\n",
     returncode |-> 0],
    \* a subdirectory whose name ends in a backslash, a link, a short line
    [stdout |-> LsTotal
                  \o "drwx 2 u g 64 Jan 1 0:00 b\\\n"
                  \o "lrwx 1 u g 1 Jan 1 0:00 l -> a\n"
                  \o "ls: x: Permission denied\n",
     returncode |-> 0],
    \* a character device: its size column is "major, minor"
    [stdout |-> LsTotal \o LsDot
                  \o "crw- 1 u g 8, 0 Jan 1 0:00 tty\n"
                  \o "drwx 2 u g 64 Jan 1 0:00 a\n",
     returncode |-> 0],
    \* ssh or ls failed: nothing on stdout
    [stdout |-> "", returncode |-> 255] }

\* the paths a caller hands to navigate_to()
NavArgs == {"/", "/a", "/a/a", "a/", "//a", ""}

(***************************************************************************)
(* RemoteFileBrowser: refresh().                                           *)
(***************************************************************************)
WalkOff == [phase |-> "off", trail |-> <<>>, nonroot |-> FALSE,
            moved |-> FALSE, expect |-> <<>>]

\* refresh() up to its blocking call: the rows are deleted, then the
\* listing command is issued
BeginRefresh ==
  /\ prev_tree' = tree
  /\ tree' = <<>>
  /\ rpc' = "fetch"
  /\ ls_lines' = <<>>
  /\ raised' = "none"

\* execute_command returns result.stdout, whatever result.returncode is
RefreshFetch ==
  /\ rpc = "fetch"
  /\ \E res \in LsResults :
       /\ ls_returncode' = res.returncode
       /\ ls_lines' = ListingLines(res.stdout)
       /\ rpc' = IF ListingLines(res.stdout) = <<>> THEN "idle" ELSE "parse"
       /\ prev_tree' = IF ListingLines(res.stdout) = <<>> THEN <<>>
                       ELSE prev_tree
  /\ UNCHANGED <<current_path, forward_history, tree, raised, walk>>
  /\ UNCHANGED xferVars

\* one turn of "for line in lines"
RefreshLine ==
  /\ rpc = "parse"
  /\ LET r == ParseLine(Head(ls_lines))
     IN  IF r.kind = "error"
         THEN /\ raised' = "ValueError"
              /\ rpc' = "idle"
              /\ ls_lines' = <<>>
              /\ tree' = tree
              /\ prev_tree' = prev_tree
         ELSE /\ raised' = raised
              /\ tree' = IF r.kind = "row" THEN Append(tree, r.row) ELSE tree
              /\ ls_lines' = Tail(ls_lines)
              /\ rpc' = IF Tail(ls_lines) = <<>> THEN "idle" ELSE "parse"
              /\ prev_tree' = IF Tail(ls_lines) = <<>> THEN <<>>
                              ELSE prev_tree
  /\ UNCHANGED <<current_path, forward_history, ls_returncode, walk>>
  /\ UNCHANGED xferVars

\* the Refresh button
Refresh ==
  /\ rpc = "idle"
  /\ BeginRefresh
  /\ walk' = WalkOff
  /\ UNCHANGED <<current_path, forward_history, ls_returncode>>
  /\ UNCHANGED xferVars

(***************************************************************************)
(* RemoteFileBrowser: navigate_to, on_double_click, go_up, go_forward.     *)
(***************************************************************************)
\* navigate_to with the clearing of the forward history left out
navigate_to_NoClear(path) ==
  /\ forward_history' = forward_history
  /\ current_path' = path
  /\ BeginRefresh

navigate_to(path) ==
  /\ forward_history' = <<>>
  /\ current_path' = path
  /\ BeginRefresh

NavigateTo ==
  /\ rpc = "idle"
  /\ \E path \in NavArgs : navigate_to(path)
  /\ walk' = WalkOff
  /\ UNCHANGED ls_returncode
  /\ UNCHANGED xferVars

\* the path on_double_click builds for the row named name
ChildPath(name) == ReplaceBackslash(PathJoin(current_path, name))

\* on_double_click on a row whose type is "Directory"
DescendInto ==
  /\ rpc = "idle"
  /\ \E i \in 1..Len(tree) :
       /\ tree[i].values[1] = "Directory"
       /\ Len(ChildPath(tree[i].text)) <= MaxPathLen
       /\ navigate_to(ChildPath(tree[i].text))
  /\ walk' = WalkOff
  /\ UNCHANGED ls_returncode
  /\ UNCHANGED xferVars

\* on_double_click on any other row: nothing happens
DoubleClickOther ==
  /\ rpc = "idle"
  /\ \E i \in 1..Len(tree) : tree[i].values[1] # "Directory"
  /\ raised' = "none"
  /\ prev_tree' = <<>>
  /\ walk' = WalkOff
  /\ UNCHANGED <<current_path, forward_history, tree, rpc, ls_lines,
                 ls_returncode>>
  /\ UNCHANGED xferVars

\* the observer's note of one go_up(): the state it was called in
WalkUp ==
  LET base == IF walk.phase = "up" THEN walk
              ELSE [WalkOff EXCEPT !.phase = "up", !.moved = TRUE,
                                   !.nonroot = (current_path # Sep)]
  IN  IF Len(base.trail) >= MaxRun THEN WalkOff
      ELSE [base EXCEPT
              !.trail = Append(@, <<current_path, forward_history>>),
              !.moved = @ /\ Dirname(current_path) # current_path]

\* the observer's note of one go_forward(): the state it should restore
WalkForward ==
  IF walk.phase \in {"up", "fwd"} /\ walk.trail # <<>>
  THEN [walk EXCEPT !.phase = "fwd",
                    !.expect = walk.trail[Len(walk.trail)],
                    !.trail = SubSeq(walk.trail, 1, Len(walk.trail) - 1)]
  ELSE WalkOff

\* the test "parent_path != self.current_path" of go_up
NotAtRoot(path) == Dirname(path) # path

\* go_up moving two levels up while pushing the path it leaves
GoUp_Grandparent ==
  /\ rpc = "idle"
  /\ IF NotAtRoot(current_path)
     THEN /\ forward_history' = Append(forward_history, current_path)
          /\ current_path' = Dirname(Dirname(current_path))
          /\ BeginRefresh
     ELSE /\ raised' = "none"
          /\ prev_tree' = <<>>
          /\ UNCHANGED <<current_path, forward_history, tree, rpc, ls_lines>>
  /\ walk' = WalkUp
  /\ UNCHANGED ls_returncode
  /\ UNCHANGED xferVars

\* go_up pushing the parent it moves to instead of the path it leaves
GoUp_PushParent ==
  /\ rpc = "idle"
  /\ IF NotAtRoot(current_path)
     THEN /\ forward_history' =
               Append(forward_history, Dirname(current_path))
          /\ current_path' = Dirname(current_path)
          /\ BeginRefresh
     ELSE /\ raised' = "none"
          /\ prev_tree' = <<>>
          /\ UNCHANGED <<current_path, forward_history, tree, rpc, ls_lines>>
  /\ walk' = WalkUp
  /\ UNCHANGED ls_returncode
  /\ UNCHANGED xferVars

GoUp ==
  /\ rpc = "idle"
  /\ IF NotAtRoot(current_path)
     THEN /\ forward_history' = Append(forward_history, current_path)
          /\ current_path' = Dirname(current_path)
          /\ BeginRefresh
     ELSE /\ raised' = "none"
          /\ prev_tree' = <<>>
          /\ UNCHANGED <<current_path, forward_history, tree, rpc, ls_lines>>
  /\ walk' = WalkUp
  /\ UNCHANGED ls_returncode
  /\ UNCHANGED xferVars

\* go_forward reading the top of the forward history without popping it
GoForward_NoPop ==
  /\ rpc = "idle"
  /\ IF forward_history # <<>>
     THEN /\ current_path' = forward_history[Len(forward_history)]
          /\ forward_history' = forward_history
          /\ BeginRefresh
     ELSE /\ raised' = "none"
          /\ prev_tree' = <<>>
          /\ UNCHANGED <<current_path, forward_history, tree, rpc, ls_lines>>
  /\ walk' = WalkForward
  /\ UNCHANGED ls_returncode
  /\ UNCHANGED xferVars

GoForward ==
  /\ rpc = "idle"
  /\ IF forward_history # <<>>
     THEN /\ current_path' = forward_history[Len(forward_history)]
          /\ forward_history' =
               SubSeq(forward_history, 1, Len(forward_history) - 1)
          /\ BeginRefresh
     ELSE /\ raised' = "none"
          /\ prev_tree' = <<>>
          /\ UNCHANGED <<current_path, forward_history, tree, rpc, ls_lines>>
  /\ walk' = WalkForward
  /\ UNCHANGED ls_returncode
  /\ UNCHANGED xferVars

(***************************************************************************)
(* run_rsync_command: the searches it makes in one output line.            *)
(***************************************************************************)
Contains(s, sub) ==
  \E i \in 1..(Len(s) - Len(sub) + 1) : SubSeq(s, i, i + Len(sub) - 1) = sub

\* first index of the run of digits that ends at j
DigitRunStart(s, j) ==
  Max({k \in 0..(j - 1) : k = 0 \/ ~IsDigit(Char(s, k))}) + 1

\* last index of the run of digits that starts at i
DigitRunEnd(s, i) ==
  Min({j \in i..Len(s) : j = Len(s) \/ ~IsDigit(Char(s, j + 1))})

\* progress_regex.search(output), r'(\d+)\%': a match is a whole run of
\* digits with "%" right after it; these are the indices of such "%"
PercentEnds(s) ==
  {j \in 2..Len(s) : Char(s, j) = "%" /\ IsDigit(Char(s, j - 1))}

\* match.group(1) of the leftmost match
PercentGroup(s) ==
  LET j == Min(PercentEnds(s))
  IN  SubSeq(s, DigitRunStart(s, j - 1), j - 1)

ToCheckKey == "to-check="

\* re.search(r'to-check=(\d+)/(\d+)', output): the indices a match starts at
ToCheckStarts(s) ==
  {i \in 1..(Len(s) - Len(ToCheckKey)) :
     LET a == i + Len(ToCheckKey)
     IN  /\ SubSeq(s, i, a - 1) = ToCheckKey
         /\ IsDigit(Char(s, a))
         /\ DigitRunEnd(s, a) + 2 <= Len(s)
         /\ Char(s, DigitRunEnd(s, a) + 1) = "/"
         /\ IsDigit(Char(s, DigitRunEnd(s, a) + 2))}

\* <<match.group(1), match.group(2)>> of the leftmost match
ToCheckGroups(s) ==
  LET a == Min(ToCheckStarts(s)) + Len(ToCheckKey)
      b == DigitRunEnd(s, a) + 2
  IN  <<SubSeq(s, a, b - 2), SubSeq(s, b, DigitRunEnd(s, b))>>

\* int((checked / total) * 100), for total # 0
DirectoryPercent(checked, total) ==
  FloatTrunc(FloatMul(FloatDiv(FromInt(checked), total), 100))

\* direction.capitalize()
Capitalize(direction) ==
  IF direction = "download" THEN "Download" ELSE "Upload"

(***************************************************************************)
(* The loop body of run_rsync_command for one line read from stdout:       *)
(* what it leaves in the widgets, or the exception it raises.              *)
(***************************************************************************)
\* the loop body choosing its parsing strategy from the shape of the
\* line instead of from is_directory
ProcessLine_FromShape(is_directory, direction, output, value, text) ==
  IF Contains(output, "to-check") /\ ToCheckStarts(output) # {}
  THEN LET g == ToCheckGroups(output)
           checked == IntOf(g[2]) - IntOf(g[1])
           total == IntOf(g[2])
       IN  IF total = 0
           THEN [raised |-> "ZeroDivisionError",
                 value |-> value, text |-> text]
           ELSE [raised |-> "none",
                 value |-> DirectoryPercent(checked, total),
                 text |-> text]
  ELSE IF PercentEnds(output) # {}
  THEN LET progress_percent == IntOf(PercentGroup(output))
       IN  [raised |-> "none",
            value |-> progress_percent,
            text |-> Capitalize(direction) \o " in progress... "
                       \o ToString(progress_percent) \o "%"]
  ELSE [raised |-> "none", value |-> value, text |-> text]

ProcessLine(is_directory, direction, output, value, text) ==
  IF ~is_directory
  THEN IF PercentEnds(output) # {}
       THEN LET progress_percent == IntOf(PercentGroup(output))
            IN  [raised |-> "none",
                 value |-> progress_percent,
                 text |-> Capitalize(direction) \o " in progress... "
                            \o ToString(progress_percent) \o "%"]
       ELSE [raised |-> "none", value |-> value, text |-> text]
  ELSE IF Contains(output, "to-check") /\ ToCheckStarts(output) # {}
       THEN LET g == ToCheckGroups(output)
                checked == IntOf(g[2]) - IntOf(g[1])
                total == IntOf(g[2])
            IN  IF total = 0
                THEN [raised |-> "ZeroDivisionError",
                      value |-> value, text |-> text]
                ELSE [raised |-> "none",
                      value |-> DirectoryPercent(checked, total),
                      text |-> text]
       ELSE [raised |-> "none", value |-> value, text |-> text]

(***************************************************************************)
(* is_remote_directory: the remote command                                 *)
(*   test -d <path> && echo directory || echo file                         *)
(* and the reading of its stdout.                                          *)
(***************************************************************************)
\* stdout of the ssh command: nothing when ssh itself fails
TypeTestStdout(src_kind, channel_up) ==
  IF ~channel_up THEN ""
  ELSE IF src_kind = "dir" THEN "directory\n"
  ELSE "file\n"

\* the value returned, or the Exception raised
is_remote_directory(src_kind, channel_up) ==
  LET stdout == TypeTestStdout(src_kind, channel_up)
  IN  IF Contains(stdout, "directory")
      THEN [raised |-> "none", value |-> TRUE]
      ELSE IF Contains(stdout, "file")
      THEN [raised |-> "none", value |-> FALSE]
      ELSE [raised |-> "Exception", value |-> FALSE]

\* os.path.isdir(src_path)
LocalIsDir(src_kind) == src_kind = "dir"

(***************************************************************************)
(* Transfers: download_file / upload_file on the UI thread, one worker     *)
(* thread per job in run_rsync_command, one rsync subprocess per worker.   *)
(***************************************************************************)
Directions == {"download", "upload"}
SrcKinds == {"dir", "file", "missing"}
JobIds == {"j1", "j2"}

\* lines rsync -azP can write to stdout (without their newline)
RsyncLines ==
  { "sending incremental file list",
    " 32,768  42% 1.20MB/s 0:00:01",
    " 1,234 100% 0:00:00 (xfer#1, to-check=71/100)",
    "f (xfer#2, to-check=50/200)",
    \* the file "0" of a directory named "to-check=0"
    "to-check=0/0",
    "report 150%.txt" }

ExitCodes == {0, 23}

NoJob == [pc |-> "unused", direction |-> "download", src_kind |-> "file",
          channel_up |-> TRUE, is_directory |-> FALSE, raised |-> "none"]
NoProc == [state |-> "none", out |-> <<>>, err_fill |-> 0,
           budget |-> 0, returncode |-> 0]

\* download_file() / upload_file() with every field filled in: the widgets
\* of the direction are reset and the worker thread is started
StartTransfer(j) ==
  /\ wk[j].pc = "idle"
  /\ \E d \in Directions, k \in SrcKinds, up \in BOOLEAN :
       /\ progress_value' = [progress_value EXCEPT ![d] = 0]
       /\ status_text' =
            [status_text EXCEPT
               ![d] = IF d = "download" THEN "Downloading..."
                      ELSE "Uploading..."]
       /\ wk' = [wk EXCEPT ![j] = [NoJob EXCEPT !.pc = "start",
                                                !.direction = d,
                                                !.src_kind = k,
                                                !.channel_up = up]]
  /\ UNCHANGED proc
  /\ UNCHANGED navVars

\* the is_directory the worker computes, or the exception that ends it
Classify(job) ==
  IF job.direction = "download"
  THEN is_remote_directory(job.src_kind, job.channel_up)
  ELSE [raised |-> "none", value |-> LocalIsDir(job.src_kind)]

\* run_rsync_command up to the classification of the source
WorkerClassify(j) ==
  /\ wk[j].pc = "start"
  /\ progress_value' = [progress_value EXCEPT ![wk[j].direction] = 0]
  /\ wk' = [wk EXCEPT ![j] =
              IF Classify(wk[j]).raised # "none"
              THEN [@ EXCEPT !.pc = "died",
                             !.raised = Classify(wk[j]).raised]
              ELSE [@ EXCEPT !.pc = "classified",
                             !.is_directory = Classify(wk[j]).value]]
  /\ UNCHANGED <<status_text, proc>>
  /\ UNCHANGED navVars

\* the status label is set and the rsync subprocess is opened
WorkerLaunch(j) ==
  /\ wk[j].pc = "classified"
  /\ status_text' =
       [status_text EXCEPT
          ![wk[j].direction] =
             Capitalize(wk[j].direction) \o " in progress..."
               \o (IF wk[j].is_directory THEN " (Folder)" ELSE "")]
  /\ proc' = [proc EXCEPT ![j] = [NoProc EXCEPT !.state = "running",
                                                !.budget = MaxWrites]]
  /\ wk' = [wk EXCEPT ![j].pc = "reading"]
  /\ UNCHANGED progress_value
  /\ UNCHANGED navVars

\* process.stdout.readline() returns a line, and the loop body runs on it
WorkerReadLine(j) ==
  /\ wk[j].pc = "reading"
  /\ proc[j].out # <<>>
  /\ LET d == wk[j].direction
         r == ProcessLine(wk[j].is_directory, d, Head(proc[j].out),
                          progress_value[d], status_text[d])
     IN  /\ progress_value' = [progress_value EXCEPT ![d] = r.value]
         /\ status_text' = [status_text EXCEPT ![d] = r.text]
         /\ wk' = [wk EXCEPT ![j] =
                     IF r.raised = "none" THEN @
                     ELSE [@ EXCEPT !.pc = "died", !.raised = r.raised]]
  /\ proc' = [proc EXCEPT ![j].out = Tail(@)]
  /\ UNCHANGED navVars

\* the completion writing to the widgets of both directions
WorkerFinish_AllBars(j) ==
  /\ wk[j].pc = "reading"
  /\ proc[j].out = <<>>
  /\ proc[j].state = "exited"
  /\ progress_value' = [d \in Directions |-> 100]
  /\ status_text' = [d \in Directions |-> Capitalize(d) \o " Complete!"]
  /\ wk' = [wk EXCEPT ![j].pc = "done"]
  /\ UNCHANGED proc
  /\ UNCHANGED navVars

\* readline() returns '' at end of file and poll() is not None: the loop
\* ends, process.wait() returns, the widgets get their final values
WorkerFinish(j) ==
  /\ wk[j].pc = "reading"
  /\ proc[j].out = <<>>
  /\ proc[j].state = "exited"
  /\ progress_value' = [progress_value EXCEPT ![wk[j].direction] = 100]
  /\ status_text' =
       [status_text EXCEPT
          ![wk[j].direction] = Capitalize(wk[j].direction) \o " Complete!"]
  /\ wk' = [wk EXCEPT ![j].pc = "done"]
  /\ UNCHANGED proc
  /\ UNCHANGED navVars

\* rsync writes one line to its stdout, a pipe the worker reads
ProcWriteStdout(j) ==
  /\ proc[j].state = "running"
  /\ proc[j].budget > 0
  /\ Len(proc[j].out) < PipeCap
  /\ \E line \in RsyncLines :
       proc' = [proc EXCEPT ![j].out = Append(@, line),
                            ![j].budget = @ - 1]
  /\ UNCHANGED <<progress_value, status_text, wk>>
  /\ UNCHANGED navVars

\* rsync writes a message to its stderr, a pipe nobody reads: once the
\* pipe is full the write never returns
ProcWriteStderr(j) ==
  /\ proc[j].state = "running"
  /\ proc[j].budget > 0
  /\ proc' = [proc EXCEPT
                ![j] = IF @.err_fill < PipeCap
                       THEN [@ EXCEPT !.err_fill = @ + 1, !.budget = @ - 1]
                       ELSE [@ EXCEPT !.state = "blocked"]]
  /\ UNCHANGED <<progress_value, status_text, wk>>
  /\ UNCHANGED navVars

\* rsync exits, which closes its ends of the pipes
ProcExit(j) ==
  /\ proc[j].state = "running"
  /\ \E code \in ExitCodes :
       proc' = [proc EXCEPT ![j].state = "exited", ![j].returncode = code]
  /\ UNCHANGED <<progress_value, status_text, wk>>
  /\ UNCHANGED navVars

JobStep(j) ==
  \/ WorkerClassify(j)
  \/ WorkerLaunch(j)
  \/ WorkerReadLine(j)
  \/ WorkerFinish(j)
  \/ ProcWriteStdout(j)
  \/ ProcWriteStderr(j)
  \/ ProcExit(j)

\* the widgets as the window is built, and no job
XferOff ==
  /\ progress_value = [d \in Directions |-> 0]
  /\ status_text = [d \in Directions |-> ""]
  /\ wk = [j \in JobIds |-> NoJob]
  /\ proc = [j \in JobIds |-> NoProc]

\* TransferJob.phase as the status label shows it
PhaseOf(text) ==
  IF Contains(text, "Complete!") THEN "Complete"
  ELSE IF Contains(text, "Failed") THEN "Failed"
  ELSE IF Contains(text, "in progress") THEN "Running"
  ELSE IF text = "" THEN "None"
  ELSE "Pending"

Phase(j) == PhaseOf(status_text[wk[j].direction])
Percent(j) == progress_value[wk[j].direction]

(***************************************************************************)
(* The browser after __init__: at "/", no forward history, and the rows    *)
(* of the constructor's refresh() (a constructor whose refresh() raised    *)
(* built no browser).                                                      *)
(***************************************************************************)
NavInit ==
  /\ current_path = "/"
  /\ forward_history = <<>>
  /\ \E res \in LsResults :
       /\ ~RunLoop(<<>>, ListingLines(res.stdout)).raised
       /\ tree = RunLoop(<<>>, ListingLines(res.stdout)).rows
       /\ ls_returncode = res.returncode
  /\ rpc = "idle"
  /\ ls_lines = <<>>
  /\ raised = "none"
  /\ prev_tree = <<>>
  /\ walk = WalkOff
  /\ XferOff

NavNext ==
  \/ RefreshFetch
  \/ RefreshLine
  \/ Refresh
  \/ NavigateTo
  \/ DescendInto
  \/ DoubleClickOther
  \/ GoUp
  \/ GoForward

NavSpec == NavInit /\ [][NavNext]_vars

(***************************************************************************)
(* One transfer job, from the request to the end of its worker.  The       *)
(* browser is left as built, with an empty listing.                        *)
(***************************************************************************)
NavOff ==
  /\ current_path = "/"
  /\ forward_history = <<>>
  /\ tree = <<>>
  /\ rpc = "idle"
  /\ ls_lines = <<>>
  /\ ls_returncode = 0
  /\ raised = "none"
  /\ prev_tree = <<>>
  /\ walk = WalkOff

TransferInit ==
  /\ NavOff
  /\ progress_value = [d \in Directions |-> 0]
  /\ status_text = [d \in Directions |-> ""]
  /\ wk = [j \in JobIds |-> IF j = "j1" THEN [NoJob EXCEPT !.pc = "idle"]
                            ELSE NoJob]
  /\ proc = [j \in JobIds |-> NoProc]

TransferNext == \E j \in JobIds : StartTransfer(j) \/ JobStep(j)

TransferSpec == TransferInit /\ [][TransferNext]_vars

(***************************************************************************)
(* Two transfer jobs at once.  The second request is made while the        *)
(* worker of the first is still running.  To keep the interleavings of     *)
(* the two workers, their subprocesses and the request within reach, the   *)
(* sources exist, and each subprocess writes at most once, to its stderr   *)
(* or one of two lines to its stdout.                                      *)
(***************************************************************************)
Running(j) == wk[j].pc \in {"start", "classified", "reading"}

\* a second click on Download or Upload while the first job is running
RequestSecond == Running("j1") /\ StartTransfer("j2")

ConcurrentLines ==
  { " 32,768  42% 1.20MB/s 0:00:01",
    " 1,234 100% 0:00:00 (xfer#1, to-check=71/100)" }

ConcurrentRuns ==
  \A j \in JobIds :
    /\ wk[j].src_kind # "missing"
    /\ proc[j].state # "none" => proc[j].budget >= MaxWrites - 1
    /\ \A i \in 1..Len(proc[j].out) : proc[j].out[i] \in ConcurrentLines

ConcurrentInit ==
  /\ NavOff
  /\ progress_value = [d \in Directions |-> 0]
  /\ status_text = [d \in Directions |-> ""]
  /\ wk = [j \in JobIds |-> [NoJob EXCEPT !.pc = "idle"]]
  /\ proc = [j \in JobIds |-> NoProc]

ConcurrentNext ==
  \/ StartTransfer("j1") /\ ConcurrentRuns'
  \/ RequestSecond /\ ConcurrentRuns'
  \/ \E j \in JobIds : JobStep(j) /\ ConcurrentRuns'

ConcurrentSpec == ConcurrentInit /\ [][ConcurrentNext]_vars

(***************************************************************************)
(* Properties.                                                             *)
(***************************************************************************)
Started(j) == wk[j].pc \notin {"unused", "idle"}
Ended(j) == wk[j].pc \in {"done", "died"}

\* C1: a job whose rsync subprocess exited with a non-zero code ends with
\* phase Failed: it does not end Complete, and its percent is not set to 100.
C1_NonZeroExitEndsFailed ==
  \A j \in JobIds :
    (Ended(j) /\ proc[j].state = "exited" /\ proc[j].returncode # 0)
      => (Phase(j) = "Failed" /\ Percent(j) # 100)

\* C2: a job whose rsync subprocess exited with code 0 ends, whatever lines
\* the subprocess wrote, with phase Complete and percent 100.
C2_ZeroExitEndsComplete ==
  \A j \in JobIds :
    (Ended(j) /\ proc[j].state = "exited" /\ proc[j].returncode = 0)
      => (Phase(j) = "Complete" /\ Percent(j) = 100)

\* C3: a started job always reaches a terminal phase: as long as its phase
\* is neither Complete nor Failed, its worker or its subprocess can take
\* a step (a job that can take none stays where it is for ever).
C3_StartedJobReachesTerminalPhase ==
  \A j \in JobIds :
    Started(j) => (Phase(j) \in {"Complete", "Failed"} \/ ENABLED JobStep(j))

\* C4: a refresh() that did not run to the end of the new listing leaves
\* the rows as they were before it began: between two handlers the rows
\* are never a part of a listing.
C4_RefreshShowsOldOrNewListing ==
  (rpc = "idle" /\ raised # "none") => tree = prev_tree

\* C5: every navigate_to and every descent leaves forward_history empty,
\* so that a go_forward that follows changes nothing; forward_history
\* grows in go_up and in no other step; go_forward on an empty
\* forward_history changes neither the path, the history nor the rows.
C5_ForwardHistoryClearedOnNavigate ==
  [][ /\ (NavigateTo \/ DescendInto) => forward_history' = <<>>
      /\ Len(forward_history') > Len(forward_history) => GoUp
      /\ (GoForward /\ forward_history = <<>>)
           => UNCHANGED <<current_path, forward_history, tree, rpc>> ]_vars

\* C5 witness: navigate_to("a/") has just run (no other step sets this
\* path) and the history is empty while its refresh is under way.
C5_Witness ==
  current_path = "a/" /\ forward_history = <<>> /\ rpc = "fetch"

\* C6 as claimed: from a path other than "/", k go_up() calls followed by
\* go_forward() calls restore, one call at a time and in reverse order,
\* the path and the forward history each go_up() was called with.
C6_UpsThenForwardsRestore ==
  (walk.phase = "fwd" /\ walk.nonroot)
    => <<current_path, forward_history>> = walk.expect

\* C6 amended: k go_up() calls, each made at a path that differs from its
\* dirname, followed by go_forward() calls restore, one call at a time and
\* in reverse order, the path and the forward history each go_up() was
\* called with.
C6_MovingUpsThenForwardsRestore ==
  (walk.phase = "fwd" /\ walk.moved)
    => <<current_path, forward_history>> = walk.expect

\* C6 witness: two go_up() calls that both moved, then one go_forward().
C6_Witness ==
  walk.phase = "fwd" /\ walk.moved /\ Len(walk.trail) = 1 /\ rpc = "idle"

C8_CurrentPathNormalized ==
  /\ StartsWith(current_path, "/")
  /\ (current_path = "/" \/ ~EndsWith(current_path, "/"))

\* C9: a download is classified Directory only for a remote directory and
\* File only for a remote non-directory that exists; when the path is
\* missing or the type test fails, no subprocess is launched.
C9_ClassifyFailsOnMissingPath ==
  \A j \in JobIds :
    (Started(j) /\ wk[j].direction = "download") =>
      /\ wk[j].pc \in {"classified", "reading", "done"} =>
           IF wk[j].is_directory THEN wk[j].src_kind = "dir"
           ELSE wk[j].src_kind = "file"
      /\ (wk[j].src_kind = "missing" \/ ~wk[j].channel_up) =>
           proc[j].state = "none"

\* C10: in a Directory job, a line with to-check=<remaining>/<total> sets
\* percent to floor((total - remaining) / total * 100); a line without it
\* leaves percent unchanged and the worker reading.
C10_DirectoryPercentIsFloor ==
  [][\A j \in JobIds :
       (WorkerReadLine(j) /\ wk[j].is_directory) =>
         LET line == Head(proc[j].out)
             d == wk[j].direction
         IN  IF ToCheckStarts(line) # {}
             THEN LET remaining == IntOf(ToCheckGroups(line)[1])
                      total == IntOf(ToCheckGroups(line)[2])
                  IN  total > 0 =>
                        progress_value'[d] =
                          (100 * (total - remaining)) \div total
             ELSE /\ progress_value'[d] = progress_value[d]
                  /\ wk'[j].pc = "reading"]_vars

C12_PercentInRange ==
  \A d \in Directions : progress_value[d] \in 0..100

\* C13: when the listing command of a refresh exits non-zero, the refresh
\* ends there with an error raised to its caller: it is not run again,
\* and it does not end as a successful navigation with an empty listing.
C13_ChannelFailureSurfaced ==
  [][(RefreshFetch /\ ls_returncode' # 0)
       => (rpc' = "idle" /\ raised' # "none")]_vars

\* C14: a Download job and an Upload job do not interfere, whatever the
\* interleaving: a step of one job (its request, its worker, its
\* subprocess) changes neither the percent nor the status of the other
\* direction, nor the worker, the subprocess or the pipes of the other
\* job, so that what the other job ends with does not depend on it.
C14_DownloadUploadIndependent ==
  [][\A j, k \in JobIds :
       (/\ j # k
        /\ StartTransfer(k) \/ JobStep(k)
        /\ wk'[k].direction # wk[j].direction)
         => /\ progress_value'[wk[j].direction]
                 = progress_value[wk[j].direction]
            /\ status_text'[wk[j].direction] = status_text[wk[j].direction]
            /\ wk'[j] = wk[j]
            /\ proc'[j] = proc[j]]_vars

\* C14 witness: one job is Complete at 100 while the job of the other
\* direction is reading and shows the 42 of its own last line.
C14_Witness ==
  \E j, k \in JobIds :
    /\ wk[j].direction # wk[k].direction
    /\ wk[j].pc = "done" /\ Phase(j) = "Complete" /\ Percent(j) = 100
    /\ wk[k].pc = "reading" /\ Percent(k) = 42

\* C15: with a second job requested in the same direction while the first
\* is running, the phase and percent of a job are changed by no step of
\* the other job, and once a job has ended with phase Complete or Failed
\* its phase and percent never change again.
C15_SameDirectionJobsIndependent ==
  [][\A j, k \in JobIds :
       (j # k /\ Started(j) /\ wk'[k].direction = wk[j].direction) =>
         LET d == wk[j].direction
             same == /\ PhaseOf(status_text'[d]) = PhaseOf(status_text[d])
                     /\ progress_value'[d] = progress_value[d]
         IN  /\ (StartTransfer(k) \/ JobStep(k)) => same
             /\ (wk[j].pc = "done" /\ Phase(j) \in {"Complete", "Failed"})
                  => same]_vars

\* C16: the listing is parsed as the reference says: the first line of
\* the output is discarded; then every line is visited in order, and a
\* line adds exactly one entry if it has at least 9 whitespace-separated
\* fields and none otherwise; the entry is a Directory if field 0 starts
\* with 'd', a Link if it starts with 'l' and a File otherwise, it has a
\* size only if it is a File (taken from field 4), and its name is the
\* fields from 8 on joined by single spaces.
C16_ParseEqualsReference ==
  [][/\ RefreshFetch =>
          \E res \in LsResults :
            ls_lines' = Tail(SplitOn(res.stdout, "\n"))
     /\ RefreshLine =>
          LET f == SplitFields(Head(ls_lines))
              n == Len(tree)
              kind == IF SubSeq(f[1], 1, 1) = "d" THEN "Directory"
                      ELSE IF SubSeq(f[1], 1, 1) = "l" THEN "Link"
                      ELSE "File"
          IN  /\ ls_lines' = Tail(ls_lines)
              /\ IF Len(f) >= 9
                 THEN /\ Len(tree') = n + 1
                      /\ SubSeq(tree', 1, n) = tree
                      /\ tree'[n + 1].text = JoinSpace(SubSeq(f, 9, Len(f)))
                      /\ tree'[n + 1].values[1] = kind
                      /\ (tree'[n + 1].values[3] # "") = (kind = "File")
                      /\ (kind = "File" /\ IsIntText(f[5])) =>
                           tree'[n + 1].values[3] = format_size(IntOf(f[5]))
                 ELSE tree' = tree]_vars

\* C17: parsing a listing never throws: no handler ends with an exception,
\* and a line that cannot be parsed is skipped, the lines after it being
\* parsed all the same.
C17_ParseNeverThrows ==
  [][RefreshLine => /\ raised' = "none"
                    /\ ls_lines' = Tail(ls_lines)]_vars

\* C18: the forward history is a parent chain anchored at current_path:
\* the dirname of its top entry is current_path, and of two adjacent
\* entries the one nearer the top is the dirname of the one below it, so
\* that go_forward() moves to a path whose dirname is current_path.
C18_ForwardHistoryIsParentChain ==
  /\ forward_history # <<>> =>
       Dirname(forward_history[Len(forward_history)]) = current_path
  /\ \A i \in 1..(Len(forward_history) - 1) :
       forward_history[i + 1] = Dirname(forward_history[i])

\* C18 witness: two go_up() calls have left a forward history of two
\* entries.
C18_Witness ==
  Len(forward_history) = 2 /\ walk.phase = "up" /\ rpc = "idle"

====
